---- MODULE Spec2Model ----
(***************************************************************************)
(* Task-execution core of Starry: the current-task registry of             *)
(* modules/taskctx (CurrentCtx over the per-CPU slot), the address-space   *)
(* switch (switch_mm over satp) and the task control block (SchedInfo).    *)
(***************************************************************************)
EXTENDS Integers, Sequences, FiniteSets, TLC

\* ---------------------------------------------------------------- bounds
\* References one block may have outside the registry (run queue, locals).
MaxExt == 2
\* Live CurrentCtx wrappers one CPU may hold at a time.
MaxWrappers == 2

\* ------------------------------------------------------------- universes
NULL == "null"
Blocks == {"A", "B"}
CPUs == {"cpu0", "cpu1"}

VARIABLES
    strong,     \* Arc<SchedInfo> strong count of each block; 0 = deallocated
    ext,        \* references to each block held outside the registry
    slot,       \* per-CPU current task pointer (axhal::cpu::current_task_ptr)
    wrappers,   \* live CurrentCtx values: wrappers[c][b] held on CPU c, viewing b
    ub,         \* an Arc operation touched a deallocated block
    panicked,   \* the kernel aborted (expect/unwrap failed)
    last,       \* the operation that produced this state
    satp,       \* the satp register: mode, asid and ppn fields
    tlb,        \* cached translations: <<root, vaddr>> pairs
    flushes,    \* sfence.vma instructions executed so far
    sched,      \* the scenario's tasks: mm_id and address-space handle of each
    phase,      \* the scenario's position: which task runs
    loaded0,    \* the root that was loaded when the scenario began
    tcb,        \* the SchedInfo in each task slot, or NULL
    heap,       \* live allocations: records [ptr, layout]
    pgd_strong, \* strong count of each address-space handle
    running,    \* the task slot whose block runs on cpu0, or NULL before the first
    tf,         \* the trap frame handed to handle_syscall: a0..a5, a7 and sepc
    sum,        \* sstatus.SUM: supervisor may access user memory
    sc          \* handle_syscall's position: what is left of the call it dispatched

regVars == <<strong, ext, slot, wrappers>>

hwVars == <<satp, tlb, flushes>>

scnVars == <<sched, phase, loaded0>>

taskVars == <<tcb, heap, pgd_strong>>

vars == <<strong, ext, slot, wrappers, ub, panicked, last,
          satp, tlb, flushes, sched, phase, loaded0,
          tcb, heap, pgd_strong, running, tf, sum, sc>>

sysVars == <<tf, sum, sc>>

\* What the registry's operations leave alone.
notReg == <<hwVars, scnVars, taskVars, running, sysVars>>

\* No system call is being handled: the task runs in user mode with zeroed
\* argument registers, and user memory is closed to the supervisor.
UserPcs == {65536}

NoSyscall ==
    /\ tf \in [a0 : {0}, a1 : {0}, a2 : {0}, a3 : {0}, a4 : {0}, a5 : {0},
                a7 : {0}, sepc : UserPcs]
    /\ sum = FALSE
    /\ sc = [pc |-> "user", todo |-> <<>>, utf8 |-> TRUE, ok |-> TRUE, pos |-> 0,
             enables |-> 0, disables |-> 0, sepc0 |-> 0, n |-> 0]

\* ------------------------------------------------------ reference counts
\* op on CPU cpu; prev/next: the blocks it was given; was: the slot before it.
Op(o, c, p, n, w) == [op |-> o, cpu |-> c, prev |-> p, next |-> n, was |-> w]

Deallocated(s, b) == s[b] = 0

\* Arc::clone: one more strong reference.
ArcClone(s, b) == [s EXCEPT ![b] = @ + 1]

\* Arc::drop: one strong reference less; the block is deallocated at 0.
ArcDrop(s, b) == [s EXCEPT ![b] = @ - 1]

\* Number of per-CPU slots whose raw pointer is block b.
SlotRefs(sl, b) == Cardinality({c \in CPUs : sl[c] = b})

HeldOn(c) == wrappers[c]["A"] + wrappers[c]["B"]

Running == ~ub /\ ~panicked

\* What a count may read as after an operation on freed memory.
Garbage == 0..(MaxExt + 1)

\* An Arc operation on a deallocated block: undefined behaviour.
Undefined(o, b) ==
    /\ ub' = TRUE
    /\ \E v \in Garbage : strong' = [strong EXCEPT ![b] = v]
    /\ last' = o
    /\ UNCHANGED notReg
    /\ UNCHANGED <<ext, slot, wrappers, panicked>>

\* ------------------------------------------------------------ operations
\* A holder outside the registry (the run queue) clones its CtxRef.
CloneRef(b) ==
    /\ Running
    /\ ext[b] >= 1
    /\ ext[b] < MaxExt
    /\ IF Deallocated(strong, b)
       THEN Undefined(Op("clone", NULL, NULL, b, NULL), b)
       ELSE /\ strong' = ArcClone(strong, b)
            /\ ext' = [ext EXCEPT ![b] = @ + 1]
            /\ last' = Op("clone", NULL, NULL, b, NULL)
            /\ UNCHANGED notReg
            /\ UNCHANGED <<slot, wrappers, ub, panicked>>

\* A holder outside the registry drops its CtxRef.
DropRef(b) ==
    /\ Running
    /\ ext[b] >= 1
    /\ IF Deallocated(strong, b)
       THEN Undefined(Op("drop", NULL, NULL, b, NULL), b)
       ELSE /\ strong' = ArcDrop(strong, b)
            /\ ext' = [ext EXCEPT ![b] = @ - 1]
            /\ last' = Op("drop", NULL, NULL, b, NULL)
            /\ UNCHANGED notReg
            /\ UNCHANGED <<slot, wrappers, ub, panicked>>

\* Boot: the first task is published into an empty slot; the reference passed
\* in becomes the slot's.
init_current(c, b) ==
    /\ Running
    /\ slot[c] = NULL
    /\ ext[b] >= 1
    /\ ~Deallocated(strong, b)
    /\ slot' = [slot EXCEPT ![c] = b]
    /\ ext' = [ext EXCEPT ![b] = @ - 1]
    /\ last' = Op("init_current", c, NULL, b, NULL)
    /\ UNCHANGED notReg
    /\ UNCHANGED <<strong, wrappers, ub, panicked>>

\* axhal::cpu::current_task_ptr(): the raw pointer in this CPU's slot.
current_task_ptr(sl, c) == sl[c]

\* ManuallyDrop::new(CtxRef::from_raw(ptr)): the count as the wrapper is made.
WrapView(s, b) == s

\* CurrentCtx::try_get: None on a null slot, else a wrapper over the slot's block.
try_get(c) ==
    /\ Running
    /\ IF current_task_ptr(slot, c) # NULL
       THEN /\ HeldOn(c) < MaxWrappers
            /\ wrappers' = [wrappers EXCEPT ![c][current_task_ptr(slot, c)] = @ + 1]
            /\ strong' = WrapView(strong, current_task_ptr(slot, c))
       ELSE UNCHANGED <<wrappers, strong>>
    /\ last' = Op("try_get", c, NULL, current_task_ptr(slot, c), slot[c])
    /\ UNCHANGED notReg
    /\ UNCHANGED <<ext, slot, ub, panicked>>

\* get() handing the caller nothing on a null slot and carrying on.
getNoAbort(c) ==
    /\ Running
    /\ IF current_task_ptr(slot, c) # NULL
       THEN /\ HeldOn(c) < MaxWrappers
            /\ wrappers' = [wrappers EXCEPT ![c][current_task_ptr(slot, c)] = @ + 1]
            /\ strong' = WrapView(strong, current_task_ptr(slot, c))
       ELSE UNCHANGED <<wrappers, strong>>
    /\ last' = Op("get", c, NULL, current_task_ptr(slot, c), slot[c])
    /\ UNCHANGED notReg
    /\ UNCHANGED <<ext, slot, ub, panicked>>

\* CurrentCtx::get: try_get().expect(..): aborts on a null slot.
get(c) ==
    /\ Running
    /\ IF current_task_ptr(slot, c) # NULL
       THEN /\ HeldOn(c) < MaxWrappers
            /\ wrappers' = [wrappers EXCEPT ![c][current_task_ptr(slot, c)] = @ + 1]
            /\ strong' = WrapView(strong, current_task_ptr(slot, c))
            /\ UNCHANGED panicked
       ELSE /\ panicked' = TRUE
            /\ UNCHANGED <<wrappers, strong>>
    /\ last' = Op("get", c, NULL, current_task_ptr(slot, c), slot[c])
    /\ UNCHANGED notReg
    /\ UNCHANGED <<ext, slot, ub>>

current_ctx(c) == get(c)

try_current_ctx(c) == try_get(c)

\* Without ManuallyDrop the wrapper's destructor would release the block.
WrapperDropReleases(s, b) == ArcDrop(s, b)

\* Dropping a CurrentCtx: the ManuallyDrop field runs no destructor.
WrapperDrop(s, b) == s

drop_wrapper(c, b) ==
    /\ Running
    /\ wrappers[c][b] >= 1
    /\ wrappers' = [wrappers EXCEPT ![c][b] = @ - 1]
    /\ strong' = WrapperDrop(strong, b)
    /\ last' = Op("drop_wrapper", c, b, NULL, slot[c])
    /\ UNCHANGED notReg
    /\ UNCHANGED <<ext, slot, ub, panicked>>

\* Deref for CurrentCtx: reading the block through a wrapper.
deref(c, b) ==
    /\ Running
    /\ wrappers[c][b] >= 1
    /\ ub' = Deallocated(strong, b)
    /\ last' = Op("deref", c, b, NULL, slot[c])
    /\ UNCHANGED notReg
    /\ UNCHANGED <<strong, ext, slot, wrappers, panicked>>

\* prev forgotten instead of dropped: its reference is leaked.
ReleasePrevLeaks(s, p) == s

\* set_current, line 155: ManuallyDrop::into_inner(arc) drops prev's Arc.
ReleasePrev(s, p) == ArcDrop(s, p)

\* The raw pointer taken from next without cloning it.
PublishNextNoClone(s, n) == s

\* set_current, line 156: Arc::into_raw(next.clone()).
PublishNext(s, n) == ArcClone(s, n)

\* set_current, line 158: the by-value argument next goes out of scope.
DropArg(s, n) == ArcDrop(s, n)

\* set_current, line 157: axhal::cpu::set_current_task_ptr(ptr).
StoreSlot(sl, c, n) == [sl EXCEPT ![c] = n]

\* CurrentCtx::set_current(prev, next) on CPU c: prev is a wrapper held on c
\* viewing block p, next a CtxRef to block n moved in by the caller.
set_current(c, p, n) ==
    /\ Running
    /\ wrappers[c][p] >= 1
    /\ ext[n] >= 1
    /\ IF Deallocated(strong, p)
       THEN Undefined(Op("set_current", c, p, n, slot[c]), p)
       ELSE IF Deallocated(ReleasePrev(strong, p), n)
       THEN Undefined(Op("set_current", c, p, n, slot[c]), n)
       ELSE /\ strong' = DropArg(PublishNext(ReleasePrev(strong, p), n), n)
            /\ slot' = StoreSlot(slot, c, n)
            /\ wrappers' = [wrappers EXCEPT ![c][p] = @ - 1]
            /\ ext' = [ext EXCEPT ![n] = @ - 1]
            /\ last' = Op("set_current", c, p, n, slot[c])
            /\ UNCHANGED notReg
            /\ UNCHANGED <<ub, panicked>>

\* ------------------------------------------------ page-table root and TLB
\* Identities a caller may pass to switch_mm.
MaxMmId == 2
\* sfence.vma instructions a run may execute.
MaxFlushes == 3

MmIds == 0..MaxMmId

\* Address-space handles (Arc<SpinNoIrq<PageTable>>): the kernel's page table
\* and two user ones. Each page table's root is a frame of its own.
Handles == {"K", "H1", "H2"}

\* PageTable::root_paddr(): page-aligned physical addresses.
root_paddr(h) ==
    CASE h = "K" -> 16 * 4096
      [] h = "H1" -> 17 * 4096
      [] h = "H2" -> 18 * 4096

VAddrs == {"va0", "va1"}

\* satp::Mode::Sv39
Sv39 == 8

\* The hardware state as one value.
Hw == [satp |-> satp, tlb |-> tlb, flushes |-> flushes]

\* satp::read().ppn() << 12
read_page_table_root(s) == s.ppn * 4096

\* The root stored without the shift to a page number.
RootToPpnNoShift(r) == r

\* root_paddr.as_usize() >> 12
RootToPpn(r) == r \div 4096

\* satp::set(mode, asid, ppn)
satp_set(mode, asid, ppn) == [mode |-> mode, asid |-> asid, ppn |-> ppn]

\* asm::sfence_vma_all()
sfence_vma_all(hw) == [hw EXCEPT !.tlb = {}, !.flushes = @ + 1]

\* asm::sfence_vma(0, vaddr)
sfence_vma(hw, va) ==
    [hw EXCEPT !.tlb = {e \in @ : e[2] # va}, !.flushes = @ + 1]

\* The root loaded and the TLB flushed whether or not the root changes.
WriteRootAlways(hw, r) ==
    sfence_vma_all([hw EXCEPT !.satp = satp_set(Sv39, 0, RootToPpn(r))])

\* write_page_table_root(root_paddr)
WriteRoot(hw, r) ==
    LET old_root == read_page_table_root(hw.satp)
    IN  IF old_root # r
        THEN sfence_vma_all([hw EXCEPT !.satp = satp_set(Sv39, 0, RootToPpn(r))])
        ELSE hw

\* write_page_table_root0(root_paddr): the register interface's root write.
WriteRoot0(hw, r) == WriteRoot(hw, r)

\* switch_mm with the identities never compared.
SwitchMmNoFastPath(hw, prev_mm_id, next_mm_id, next_pgd) ==
    WriteRoot0(hw, root_paddr(next_pgd))

\* switch_mm(prev_mm_id, next_mm_id, next_pgd)
SwitchMm(hw, prev_mm_id, next_mm_id, next_pgd) ==
    IF prev_mm_id = next_mm_id
    THEN hw
    ELSE WriteRoot0(hw, root_paddr(next_pgd))

MmOp(o, a, b, h, old) == [op |-> o, prev |-> a, next |-> b, pgd |-> h, was |-> old]

SetHw(hw) ==
    /\ satp' = hw.satp
    /\ tlb' = hw.tlb
    /\ flushes' = hw.flushes

\* What the hardware operations leave alone.
notHw == <<regVars, ub, panicked, scnVars, taskVars, running, sysVars>>

HwReset ==
    /\ satp = satp_set(0, 0, 0)
    /\ tlb = {}
    /\ flushes = 0

HwCanRun == ~panicked /\ flushes < MaxFlushes

\* setup_page_table_root(pt): the kernel page table is loaded at boot.
setup_page_table_root ==
    /\ HwCanRun
    /\ satp.mode = 0
    /\ SetHw(WriteRoot(Hw, root_paddr("K")))
    /\ last' = MmOp("setup_page_table_root", NULL, NULL, "K", read_page_table_root(satp))
    /\ UNCHANGED notHw

\* reuse_page_table_root(): asserts the kernel page table is set, loads it.
reuse_page_table_root ==
    /\ HwCanRun
    /\ IF satp.mode = 0
       THEN /\ panicked' = TRUE
            /\ UNCHANGED <<hwVars, regVars, ub, scnVars, taskVars, running, sysVars>>
       ELSE /\ SetHw(WriteRoot(Hw, root_paddr("K")))
            /\ UNCHANGED notHw
    /\ last' = MmOp("reuse_page_table_root", NULL, NULL, "K", read_page_table_root(satp))

\* write_page_table_root(root_paddr) called with the root of a page table.
write_page_table_root(h) ==
    /\ HwCanRun
    /\ satp.mode # 0
    /\ SetHw(WriteRoot(Hw, root_paddr(h)))
    /\ last' = MmOp("write_page_table_root", NULL, NULL, h, read_page_table_root(satp))
    /\ UNCHANGED notHw

\* flush_tlb(vaddr): one translation, or the whole TLB for None.
flush_tlb(va) ==
    /\ HwCanRun
    /\ SetHw(IF va = NULL THEN sfence_vma_all(Hw) ELSE sfence_vma(Hw, va))
    /\ last' = MmOp("flush_tlb", NULL, NULL, va, read_page_table_root(satp))
    /\ UNCHANGED notHw

\* The CPU translates va under the loaded root and caches the translation.
mem_access(va) ==
    /\ HwCanRun
    /\ satp.mode # 0
    /\ tlb' = tlb \cup {<<read_page_table_root(satp), va>>}
    /\ last' = MmOp("mem_access", NULL, NULL, va, read_page_table_root(satp))
    /\ UNCHANGED <<satp, flushes>>
    /\ UNCHANGED notHw

\* switch_mm(prev_mm_id, next_mm_id, next_pgd) as an operation.
switch_mm(a, b, h) ==
    /\ HwCanRun
    /\ satp.mode # 0
    /\ SetHw(SwitchMm(Hw, a, b, h))
    /\ last' = MmOp("switch_mm", a, b, h, read_page_table_root(satp))
    /\ UNCHANGED notHw

\* ------------------------------------------------------------- scenario
\* Tasks A and B share address-space id 1, task C has id 2; each is bound to
\* some address-space handle.
ScnTasks == {"A", "B", "C"}

ScnMmId(t) == IF t = "C" THEN 2 ELSE 1

NoScenario ==
    /\ sched = [t \in ScnTasks |-> [mm_id |-> ScnMmId(t), pgd |-> "K"]]
    /\ phase = NULL
    /\ loaded0 = 0

\* The switch path's address-space step from task prev to task next:
\* switch_mm(prev.mm_id, next.mm_id, next.try_pgd()).
ctx_switch(prev, next) ==
    /\ ~panicked
    /\ phase = prev
    /\ SetHw(SwitchMm(Hw, sched[prev].mm_id, sched[next].mm_id, sched[next].pgd))
    /\ phase' = next
    /\ last' = MmOp("switch_mm", sched[prev].mm_id, sched[next].mm_id,
                    sched[next].pgd, read_page_table_root(satp))
    /\ UNCHANGED <<regVars, ub, panicked, sched, loaded0, taskVars, running, sysVars>>

\* ------------------------------------------------- task control block
\* Process identifiers a caller may pass to new and dup_sched_info.
MaxPid == 2
\* Regions the allocator can hand out before it is exhausted.
MaxRegions == 2
Pids == 1..MaxPid

TaskSlots == {"t0", "t1"}

\* An absent record: Option::None of a stack, an empty task slot.
None == [none |-> TRUE]

PAGE_SIZE_4K == 4096

\* pub const THREAD_SIZE: usize = 32 * PAGE_SIZE_4K
THREAD_SIZE == 32 * PAGE_SIZE_4K

\* axhal::trap::TRAPFRAME_SIZE: the general registers, sepc and sstatus.
TRAPFRAME_SIZE == 33 * 8

\* axhal::trap::STACK_ALIGN
STACK_ALIGN == 16

\* memory_addr::align_up_4k
align_up_4k(x) == ((x + PAGE_SIZE_4K - 1) \div PAGE_SIZE_4K) * PAGE_SIZE_4K

\* memory_addr::align_down
align_down(x, a) == x - (x % a)

\* Addresses the allocator may return for a stack: 16-byte aligned, one
\* region and a 16-byte header apart.
HeapBases == {1048592 + k * (align_up_4k(THREAD_SIZE) + 16) : k \in 0..(MaxRegions - 1)}

Overlaps(p, size, a) == p < a.ptr + a.layout.size /\ a.ptr < p + size

\* alloc::alloc::alloc(layout): the addresses it may return; none = null.
FreeBases(h, size) == {p \in HeapBases : \A a \in h : ~Overlaps(p, size, a)}

\* TaskStack::alloc(size), given the pointer the allocator returned.
TaskStack_alloc(p, size) == [ptr |-> p, layout |-> [size |-> size, align |-> 16]]

\* TaskStack::top()
top(ks) == ks.ptr + ks.layout.size

\* Drop for TaskStack: dealloc(ptr, layout).
TaskStack_drop(h, ks) == IF ks = None THEN h ELSE h \ {ks}

\* ThreadStruct::new(): the zeroed register context.
ThreadStruct_new == [ra |-> 0, sp |-> 0, tp |-> 0]

\* ThreadStruct::init(entry, kstack_top, tls)
ThreadStruct_init(entry_func, sp, tls) == [ra |-> entry_func, sp |-> sp, tp |-> tls]

\* A constructor that leaves the thread-group identity zero.
SchedInfo_newZeroTgid(pid) ==
    [pid |-> pid, tgid |-> 0, pgd |-> NULL, mm_id |-> 0, active_mm_id |-> 0,
     entry |-> NULL, kstack |-> None, thread |-> ThreadStruct_new]

\* SchedInfo::new(pid)
SchedInfo_new(pid) ==
    [pid |-> pid, tgid |-> pid, pgd |-> NULL, mm_id |-> 0, active_mm_id |-> 0,
     entry |-> NULL, kstack |-> None, thread |-> ThreadStruct_new]

\* SchedInfo::pid() and SchedInfo::tgid()
pid(info) == info.pid

tgid(info) == info.tgid

\* SchedInfo::try_pgd(): the handle the block is bound to, or nothing (the
\* clone it returns is the caller's, who drops it).
try_pgd_of(info) == info.pgd

\* Option<Arc<..>>::clone: one more reference to the handle, if there is one.
PgdClone(ps, h) == IF h = NULL THEN ps ELSE [ps EXCEPT ![h] = @ + 1]

PgdDrop(ps, h) == IF h = NULL THEN ps ELSE [ps EXCEPT ![h] = @ - 1]

\* dup_sched_info with line 100 left out: the child is bound to nothing.
DupUnbound(self, child_pid, p) ==
    [SchedInfo_new(child_pid) EXCEPT
        !.kstack = TaskStack_alloc(p, align_up_4k(THREAD_SIZE))]

\* dup_sched_info carrying the parent's identity counters over to the child.
DupCopiesIds(self, child_pid, p) ==
    [SchedInfo_new(child_pid) EXCEPT
        !.kstack = TaskStack_alloc(p, align_up_4k(THREAD_SIZE)),
        !.pgd = self.pgd,
        !.mm_id = self.mm_id,
        !.active_mm_id = self.active_mm_id]

\* SchedInfo::dup_sched_info(pid): the child, given the stack's address.
Dup(self, child_pid, p) ==
    [SchedInfo_new(child_pid) EXCEPT
        !.kstack = TaskStack_alloc(p, align_up_4k(THREAD_SIZE)),
        !.pgd = self.pgd,
        !.mm_id = 0,
        !.active_mm_id = 0]

\* pt_regs() returning the stack top itself, the trap frame not set aside.
pt_regs_ofStackTop(info) == top(info.kstack)

\* SchedInfo::pt_regs(), for a block that has a stack.
pt_regs_of(info) == top(info.kstack) - align_down(TRAPFRAME_SIZE, STACK_ALIGN)

TaskOp(o, t, n) == [op |-> o, self |-> t, new |-> n]

\* What the task control block's operations leave alone.
notTask == <<regVars, ub, hwVars, scnVars, running, sysVars>>

NoTasks ==
    /\ tcb = [t \in TaskSlots |-> None]
    /\ heap = {}
    /\ pgd_strong = [h \in Handles |-> 1]

\* SchedInfo::new(pid), the block placed in a free slot.
new(t, child_pid) ==
    /\ ~panicked
    /\ tcb[t] = None
    /\ tcb' = [tcb EXCEPT ![t] = SchedInfo_new(child_pid)]
    /\ last' = TaskOp("new", NULL, t)
    /\ UNCHANGED <<heap, pgd_strong, panicked>>
    /\ UNCHANGED notTask

\* The address space is bound from outside the task-context module: the block
\* takes a clone of the handle, replacing the one it had.
bind_pgd(t, h) ==
    /\ ~panicked
    /\ tcb[t] # None
    /\ tcb[t].pgd # h
    /\ tcb' = [tcb EXCEPT ![t].pgd = h]
    /\ pgd_strong' = PgdDrop(PgdClone(pgd_strong, h), tcb[t].pgd)
    /\ last' = TaskOp("bind_pgd", t, NULL)
    /\ UNCHANGED <<heap, panicked>>
    /\ UNCHANGED notTask

\* mm_id.store(v) and active_mm_id.store(w) on the public atomic fields.
store_mm_ids(t, v, w) ==
    /\ ~panicked
    /\ tcb[t] # None
    /\ tcb' = [tcb EXCEPT ![t].mm_id = v, ![t].active_mm_id = w]
    /\ last' = TaskOp("store_mm_ids", t, NULL)
    /\ UNCHANGED <<heap, pgd_strong, panicked>>
    /\ UNCHANGED notTask

\* SchedInfo::dup_sched_info(pid) on the block in slot t; the child goes to the
\* free slot n. The allocation aborts the kernel when the allocator has nothing.
dup_sched_info(t, child_pid, n) ==
    /\ ~panicked
    /\ tcb[t] # None
    /\ tcb[n] = None
    /\ LET size == align_up_4k(THREAD_SIZE)
       IN  IF FreeBases(heap, size) = {}
           THEN /\ panicked' = TRUE
                /\ UNCHANGED <<tcb, heap, pgd_strong>>
           ELSE \E p \in FreeBases(heap, size) :
                /\ tcb' = [tcb EXCEPT ![n] = Dup(tcb[t], child_pid, p)]
                /\ heap' = heap \cup {TaskStack_alloc(p, size)}
                /\ pgd_strong' = PgdClone(pgd_strong, Dup(tcb[t], child_pid, p).pgd)
                /\ UNCHANGED panicked
    /\ last' = TaskOp("dup_sched_info", t, n)
    /\ UNCHANGED notTask

\* SchedInfo::reset(entry, entry_func, tls): the new stack is allocated while
\* the old one, if any, is still live; the old one is then dropped.
reset(t, entry, entry_func, tls) ==
    /\ ~panicked
    /\ tcb[t] # None
    /\ LET size == align_up_4k(THREAD_SIZE)
       IN  IF FreeBases(heap, size) = {}
           THEN /\ panicked' = TRUE
                /\ UNCHANGED <<tcb, heap>>
           ELSE \E p \in FreeBases(heap, size) :
                LET ks == TaskStack_alloc(p, size)
                    with_stack == [tcb[t] EXCEPT !.entry = entry, !.kstack = ks]
                    sp == pt_regs_of(with_stack)
                IN  /\ tcb' = [tcb EXCEPT ![t] =
                          [with_stack EXCEPT !.thread = ThreadStruct_init(entry_func, sp, tls)]]
                    /\ heap' = TaskStack_drop(heap, tcb[t].kstack) \cup {ks}
                    /\ UNCHANGED panicked
    /\ last' = TaskOp("reset", t, NULL)
    /\ UNCHANGED pgd_strong
    /\ UNCHANGED notTask

\* SchedInfo::pt_regs(): unwrap aborts the kernel when there is no stack.
pt_regs(t) ==
    /\ ~panicked
    /\ tcb[t] # None
    /\ panicked' = (tcb[t].kstack = None)
    /\ last' = TaskOp("pt_regs", t, NULL)
    /\ UNCHANGED <<tcb, heap, pgd_strong>>
    /\ UNCHANGED notTask

\* The block is destroyed: its stack is deallocated, its handle released.
drop_sched_info(t) ==
    /\ ~panicked
    /\ tcb[t] # None
    /\ tcb' = [tcb EXCEPT ![t] = None]
    /\ heap' = TaskStack_drop(heap, tcb[t].kstack)
    /\ pgd_strong' = PgdDrop(pgd_strong, tcb[t].pgd)
    /\ last' = TaskOp("drop_sched_info", t, NULL)
    /\ UNCHANGED panicked
    /\ UNCHANGED notTask

\* Inputs of reset.
EntryFuncs == {4198400}

TlsBases == {8192}

Entries == {"closure"}

\* Values stored from outside into the public mm_id and active_mm_id fields.
StoredIds == {0, 1}

UserHandles == Handles \ {"K"}

\* Sizes a caller may pass to TaskStack::alloc.
StackSizes == {8, 16, 24, 100, PAGE_SIZE_4K, align_up_4k(THREAD_SIZE)}

\* TaskStack::alloc(size) called on its own: unwrap aborts the kernel when the
\* allocator returns null.
kstack_alloc(size) ==
    /\ ~panicked
    /\ IF FreeBases(heap, size) = {}
       THEN /\ panicked' = TRUE
            /\ UNCHANGED heap
            /\ last' = [op |-> "TaskStack_alloc", size |-> size, stack |-> None]
       ELSE \E p \in FreeBases(heap, size) :
            /\ heap' = heap \cup {TaskStack_alloc(p, size)}
            /\ last' = [op |-> "TaskStack_alloc", size |-> size,
                        stack |-> TaskStack_alloc(p, size)]
            /\ UNCHANGED panicked
    /\ UNCHANGED <<tcb, pgd_strong>>
    /\ UNCHANGED notTask

\* A stack that no block owns is dropped.
kstack_drop(ks) ==
    /\ ~panicked
    /\ ks \in heap
    /\ \A t \in TaskSlots : IF tcb[t] = None THEN TRUE ELSE tcb[t].kstack # ks
    /\ heap' = TaskStack_drop(heap, ks)
    /\ last' = [op |-> "TaskStack_drop", size |-> ks.layout.size, stack |-> ks]
    /\ UNCHANGED <<tcb, pgd_strong, panicked>>
    /\ UNCHANGED notTask

\* ------------------------------------------------------- the switch path
\* The first task is put on the CPU: its address space is loaded.
start(t) ==
    /\ HwCanRun
    /\ running = NULL
    /\ tcb[t] # None
    /\ tcb[t].pgd # NULL
    /\ SetHw(WriteRoot(Hw, root_paddr(tcb[t].pgd)))
    /\ running' = t
    /\ last' = MmOp("start", NULL, tcb[t].mm_id, tcb[t].pgd, read_page_table_root(satp))
    /\ UNCHANGED <<regVars, ub, panicked, scnVars, taskVars, sysVars>>

\* The switch path's address-space step from the running task to the task in
\* slot n: switch_mm(prev.mm_id, next.mm_id, next.try_pgd()).
switch_to(n) ==
    /\ HwCanRun
    /\ running # NULL
    /\ running # n
    /\ tcb[n] # None
    /\ tcb[n].pgd # NULL
    /\ SetHw(SwitchMm(Hw, tcb[running].mm_id, tcb[n].mm_id, tcb[n].pgd))
    /\ running' = n
    /\ last' = MmOp("switch_to", tcb[running].mm_id, tcb[n].mm_id, tcb[n].pgd,
                    read_page_table_root(satp))
    /\ UNCHANGED <<regVars, ub, panicked, scnVars, taskVars, sysVars>>

\* ------------------------------------------------- system-call handler
\* System calls one task makes before the model stops following it.
MaxSyscalls == 2

LINUX_SYSCALL_OPENAT == 56
LINUX_SYSCALL_CLOSE == 57
LINUX_SYSCALL_READ == 63
LINUX_SYSCALL_WRITE == 64
LINUX_SYSCALL_WRITEV == 66
LINUX_SYSCALL_READLINKAT == 78
LINUX_SYSCALL_FSTATAT == 79
LINUX_SYSCALL_EXIT == 93
LINUX_SYSCALL_EXIT_GROUP == 83
LINUX_SYSCALL_UNAME == 160
LINUX_SYSCALL_BRK == 214
LINUX_SYSCALL_MUNMAP == 215
LINUX_SYSCALL_MMAP == 222

\* The numbers handle_syscall has an arm for, and two it has none for.
HandledNumbers ==
    {LINUX_SYSCALL_OPENAT, LINUX_SYSCALL_CLOSE, LINUX_SYSCALL_READ,
     LINUX_SYSCALL_WRITE, LINUX_SYSCALL_WRITEV, LINUX_SYSCALL_READLINKAT,
     LINUX_SYSCALL_FSTATAT, LINUX_SYSCALL_EXIT, LINUX_SYSCALL_EXIT_GROUP,
     LINUX_SYSCALL_UNAME, LINUX_SYSCALL_BRK, LINUX_SYSCALL_MUNMAP,
     LINUX_SYSCALL_MMAP}

UnknownNumbers == {0, 172}

\* let mut buf: [u8; 1024]
READ_BUF_SIZE == 1024

\* Register values at the trap: a0 is a null pointer or file descriptor 0,
\* an unaligned value, or a page-aligned address; a2 a length or count.
A0Values == {0, 3, 3 * PAGE_SIZE_4K}

A1Values == {5 * PAGE_SIZE_4K}

A2Values == {0, 3, READ_BUF_SIZE - 1, READ_BUF_SIZE}

\* mm.lock().brk(): the program break of the current task.
CurBrk == 2 * PAGE_SIZE_4K

\* memory_addr::is_aligned_4k
is_aligned_4k(x) == x % PAGE_SIZE_4K = 0

\* get_user_str with the closing disable_sum left out.
GetUserStrNoDisable(utf8) ==
    <<"enable_sum", "user_access">> \o (IF utf8 THEN <<>> ELSE <<"panic">>)

\* get_user_str(ptr): raw_ptr_to_ref_str panics on bytes that are not UTF-8.
GetUserStr(utf8) ==
    <<"enable_sum", "user_access">> \o
        (IF utf8 THEN <<"disable_sum">> ELSE <<"panic">>)

\* init_bytes_from_str(dst, src)
InitBytesFromStr == <<"enable_sum", "user_access", "disable_sum">>

\* What the arm of handle_syscall for number eid executes, as the sequence of
\* its steps that matter here: enable_sum, disable_sum, an access to user
\* memory, the read loop, a call out of this crate, a panic, a call that does
\* not return. utf8: the user's bytes are UTF-8; ok: the lookup or the call
\* out of the crate succeeds.
Body(eid, t, utf8, ok) ==
    CASE eid = LINUX_SYSCALL_OPENAT -> GetUserStr(utf8) \o <<"ext">>
      [] eid = LINUX_SYSCALL_READ ->
            IF ~ok \/ ~(t.a2 < READ_BUF_SIZE)
            THEN <<"panic">>
            ELSE <<"read_loop", "enable_sum", "user_access", "disable_sum">>
      [] eid = LINUX_SYSCALL_WRITE ->
            <<"enable_sum", "user_access", "ext", "disable_sum">>
      [] eid = LINUX_SYSCALL_WRITEV ->
            IF t.a2 = 0
            THEN <<"enable_sum", "disable_sum">>
            ELSE <<"enable_sum", "user_access">> \o
                     (IF utf8 THEN <<"disable_sum">> ELSE <<"panic">>)
      [] eid = LINUX_SYSCALL_UNAME ->
            IF t.a0 = 0
            THEN <<"panic">>
            ELSE InitBytesFromStr \o InitBytesFromStr \o InitBytesFromStr \o
                 InitBytesFromStr \o InitBytesFromStr \o InitBytesFromStr
      [] eid = LINUX_SYSCALL_BRK ->
            IF align_up_4k(t.a0) = 0
            THEN <<"ext">>
            ELSE IF align_up_4k(t.a0) > CurBrk /\ ok
                 THEN <<"ext", "ext", "ext">>
                 ELSE <<"panic">>
      [] eid = LINUX_SYSCALL_MUNMAP -> <<"panic">>
      [] eid = LINUX_SYSCALL_MMAP ->
            IF is_aligned_4k(t.a0) /\ ok THEN <<"ext">> ELSE <<"panic">>
      [] eid = LINUX_SYSCALL_EXIT -> <<"diverge">>
      [] OTHER -> <<>>

\* The value the arm for eid evaluates to; pos: what the read loop counted.
SyscallResult(eid, t, ok, pos) ==
    CASE eid = LINUX_SYSCALL_OPENAT -> IF ok THEN 3 ELSE -2
      [] eid = LINUX_SYSCALL_CLOSE -> 0
      [] eid = LINUX_SYSCALL_READ -> pos
      [] eid = LINUX_SYSCALL_WRITE -> t.a2
      [] eid = LINUX_SYSCALL_WRITEV -> t.a2
      [] eid = LINUX_SYSCALL_READLINKAT -> -1
      [] eid = LINUX_SYSCALL_FSTATAT -> 0
      [] eid = LINUX_SYSCALL_UNAME -> 0
      [] eid = LINUX_SYSCALL_BRK ->
            IF align_up_4k(t.a0) = 0 THEN CurBrk ELSE align_up_4k(t.a0)
      [] eid = LINUX_SYSCALL_MMAP -> IF t.a0 = 0 THEN 4 * PAGE_SIZE_4K ELSE t.a0
      [] eid = LINUX_SYSCALL_EXIT_GROUP -> 0
      [] OTHER -> 0

\* tf.sepc left where the trap found it.
AdvanceSepcNot(t) == t

\* tf.sepc += 4
AdvanceSepc(t) == [t EXCEPT !.sepc = @ + 4]

SysOp(o) == [op |-> o, eid |-> tf.a7]

\* What the handler's steps leave alone.
notSys == <<regVars, ub, hwVars, scnVars, taskVars, running>>

InHandler(step) ==
    /\ ~panicked
    /\ sc.pc = "handler"
    /\ sc.todo # <<>>
    /\ Head(sc.todo) = step

\* The trap: the task has loaded a7 and the argument registers and executed
\* ecall; handle_syscall(tf) starts on the arm for tf.regs.a7.
handle_syscall(eid, a0, a1, a2, utf8, ok) ==
    /\ ~panicked
    /\ sc.pc = "user"
    /\ sc.n < MaxSyscalls
    /\ LET t == [tf EXCEPT !.a7 = eid, !.a0 = a0, !.a1 = a1, !.a2 = a2]
       IN  /\ tf' = t
           /\ sc' = [sc EXCEPT !.pc = "handler", !.todo = Body(eid, t, utf8, ok),
                               !.utf8 = utf8, !.ok = ok, !.pos = 0,
                               !.enables = 0, !.disables = 0, !.sepc0 = t.sepc]
           /\ last' = [op |-> "handle_syscall", eid |-> eid]
    /\ UNCHANGED <<sum, panicked>>
    /\ UNCHANGED notSys

\* axhal::arch::enable_sum(): sstatus::set_sum()
enable_sum ==
    /\ InHandler("enable_sum")
    /\ sum' = TRUE
    /\ sc' = [sc EXCEPT !.todo = Tail(@), !.enables = @ + 1]
    /\ last' = SysOp("enable_sum")
    /\ UNCHANGED <<tf, panicked>>
    /\ UNCHANGED notSys

\* axhal::arch::disable_sum(): sstatus::clear_sum()
disable_sum ==
    /\ InHandler("disable_sum")
    /\ sum' = FALSE
    /\ sc' = [sc EXCEPT !.todo = Tail(@), !.disables = @ + 1]
    /\ last' = SysOp("disable_sum")
    /\ UNCHANGED <<tf, panicked>>
    /\ UNCHANGED notSys

\* The handler reads or writes user memory; with SUM clear the access faults.
user_access ==
    /\ InHandler("user_access")
    /\ panicked' = ~sum
    /\ sc' = [sc EXCEPT !.todo = Tail(@)]
    /\ last' = SysOp("user_access")
    /\ UNCHANGED <<tf, sum>>
    /\ UNCHANGED notSys

\* What file.read(&mut buf[pos..]) may return: up to the rest of the buffer.
ReadRets(pos) == {r \in {0, 1, 512, READ_BUF_SIZE - pos} : r <= READ_BUF_SIZE - pos}

\* One turn of linux_syscall_read's loop; ret < 0 stands for Err, which unwrap
\* turns into a panic.
file_read(ret) ==
    /\ InHandler("read_loop")
    /\ IF ~(sc.pos < tf.a2) \/ ret = 0
       THEN /\ sc' = [sc EXCEPT !.todo = Tail(@)]
            /\ UNCHANGED panicked
       ELSE IF ret < 0
            THEN /\ panicked' = TRUE
                 /\ UNCHANGED sc
            ELSE /\ sc' = [sc EXCEPT !.pos = @ + ret]
                 /\ UNCHANGED panicked
    /\ last' = SysOp("file_read")
    /\ UNCHANGED <<tf, sum>>
    /\ UNCHANGED notSys

\* A call out of this crate (File::open, console::write_bytes, mmap::mmap,
\* faultin_page, set_brk) that returns.
external_call ==
    /\ InHandler("ext")
    /\ sc' = [sc EXCEPT !.todo = Tail(@)]
    /\ last' = SysOp("external_call")
    /\ UNCHANGED <<tf, sum, panicked>>
    /\ UNCHANGED notSys

\* panic!, unwrap on None or Err, a failed assert!, unimplemented!
abort ==
    /\ InHandler("panic")
    /\ panicked' = TRUE
    /\ last' = SysOp("abort")
    /\ UNCHANGED <<tf, sum, sc>>
    /\ UNCHANGED notSys

\* task::exit(ret): the task is gone; handle_syscall never returns.
task_exit ==
    /\ InHandler("diverge")
    /\ sc' = [sc EXCEPT !.pc = "exited", !.todo = <<>>]
    /\ last' = SysOp("task_exit")
    /\ UNCHANGED <<tf, sum, panicked>>
    /\ UNCHANGED notSys

\* The arm has returned: tf.regs.a0 = its value; tf.sepc += 4; return.
syscall_return ==
    /\ ~panicked
    /\ sc.pc = "handler"
    /\ sc.todo = <<>>
    /\ tf' = AdvanceSepc([tf EXCEPT !.a0 = SyscallResult(tf.a7, tf, sc.ok, sc.pos)])
    /\ sc' = [sc EXCEPT !.pc = "user", !.n = @ + 1]
    /\ last' = SysOp("syscall_return")
    /\ UNCHANGED <<sum, panicked>>
    /\ UNCHANGED notSys

\* ---------------------------------------------------------- specification
\* Every task was created by Arc::new and sits on the run queue; no CPU has
\* published a current task yet.
Init ==
    /\ strong = [b \in Blocks |-> 1]
    /\ ext = [b \in Blocks |-> 1]
    /\ slot = [c \in CPUs |-> NULL]
    /\ wrappers = [c \in CPUs |-> [b \in Blocks |-> 0]]
    /\ ub = FALSE
    /\ panicked = FALSE
    /\ last = Op("boot", NULL, NULL, NULL, NULL)
    /\ HwReset
    /\ NoScenario
    /\ NoTasks
    /\ running = NULL
    /\ NoSyscall

Next ==
    \/ \E b \in Blocks : CloneRef(b)
    \/ \E b \in Blocks : DropRef(b)
    \/ \E c \in CPUs, b \in Blocks : init_current(c, b)
    \/ \E c \in CPUs : try_current_ctx(c)
    \/ \E c \in CPUs : current_ctx(c)
    \/ \E c \in CPUs, b \in Blocks : drop_wrapper(c, b)
    \/ \E c \in CPUs, b \in Blocks : deref(c, b)
    \/ \E c \in CPUs, p \in Blocks, n \in Blocks : set_current(c, p, n)

Spec == Init /\ [][Next]_vars

\* The register interface and switch_mm, called in any order after reset.
InitMm ==
    /\ strong = [b \in Blocks |-> 1]
    /\ ext = [b \in Blocks |-> 1]
    /\ slot = [c \in CPUs |-> NULL]
    /\ wrappers = [c \in CPUs |-> [b \in Blocks |-> 0]]
    /\ ub = FALSE
    /\ panicked = FALSE
    /\ last = MmOp("boot", NULL, NULL, NULL, 0)
    /\ HwReset
    /\ NoScenario
    /\ NoTasks
    /\ running = NULL
    /\ NoSyscall

NextMm ==
    \/ setup_page_table_root
    \/ reuse_page_table_root
    \/ \E h \in Handles : write_page_table_root(h)
    \/ \E va \in VAddrs \cup {NULL} : flush_tlb(va)
    \/ \E va \in VAddrs : mem_access(va)
    \/ \E a \in MmIds, b \in MmIds, h \in Handles : switch_mm(a, b, h)

SpecMm == InitMm /\ [][NextMm]_vars

\* The scenario: task A runs with some root loaded; B, then C, is switched in.
InitScenario ==
    /\ strong = [b \in Blocks |-> 1]
    /\ ext = [b \in Blocks |-> 1]
    /\ slot = [c \in CPUs |-> NULL]
    /\ wrappers = [c \in CPUs |-> [b \in Blocks |-> 0]]
    /\ ub = FALSE
    /\ panicked = FALSE
    /\ last = MmOp("boot", NULL, NULL, NULL, 0)
    /\ \E h \in Handles : /\ satp = satp_set(Sv39, 0, RootToPpn(root_paddr(h)))
                          /\ loaded0 = root_paddr(h)
    /\ tlb \in SUBSET {<<read_page_table_root(satp), va>> : va \in VAddrs}
    /\ flushes = 0
    /\ sched \in [ScnTasks -> [mm_id : MmIds, pgd : Handles]]
    /\ \A t \in ScnTasks : sched[t].mm_id = ScnMmId(t)
    /\ phase = "A"
    /\ NoTasks
    /\ running = NULL
    /\ NoSyscall

NextScenario ==
    \/ ctx_switch("A", "B")
    \/ ctx_switch("B", "C")

SpecScenario == InitScenario /\ [][NextScenario]_vars

\* Task control blocks created, bound, duplicated, reset and destroyed.
InitTask ==
    /\ strong = [b \in Blocks |-> 1]
    /\ ext = [b \in Blocks |-> 1]
    /\ slot = [c \in CPUs |-> NULL]
    /\ wrappers = [c \in CPUs |-> [b \in Blocks |-> 0]]
    /\ ub = FALSE
    /\ panicked = FALSE
    /\ last = TaskOp("boot", NULL, NULL)
    /\ HwReset
    /\ NoScenario
    /\ NoTasks
    /\ running = NULL
    /\ NoSyscall

NextTask ==
    \/ \E t \in TaskSlots, p \in Pids : new(t, p)
    \/ \E t \in TaskSlots, h \in UserHandles : bind_pgd(t, h)
    \/ \E t \in TaskSlots, v \in StoredIds, w \in StoredIds : store_mm_ids(t, v, w)
    \/ \E t \in TaskSlots, p \in Pids, n \in TaskSlots : dup_sched_info(t, p, n)
    \/ \E t \in TaskSlots, e \in Entries, f \in EntryFuncs, tls \in TlsBases :
          reset(t, e, f, tls)
    \/ \E t \in TaskSlots : pt_regs(t)
    \/ \E t \in TaskSlots : drop_sched_info(t)

SpecTask == InitTask /\ [][NextTask]_vars

\* Tasks created, bound, given identities, duplicated and reset, and switched
\* between on one CPU.
InitSwitch ==
    /\ strong = [b \in Blocks |-> 1]
    /\ ext = [b \in Blocks |-> 1]
    /\ slot = [c \in CPUs |-> NULL]
    /\ wrappers = [c \in CPUs |-> [b \in Blocks |-> 0]]
    /\ ub = FALSE
    /\ panicked = FALSE
    /\ last = TaskOp("boot", NULL, NULL)
    /\ HwReset
    /\ NoScenario
    /\ NoTasks
    /\ running = NULL
    /\ NoSyscall

NextSwitch ==
    \/ \E t \in TaskSlots, p \in Pids : new(t, p)
    \/ \E t \in TaskSlots, h \in UserHandles : bind_pgd(t, h)
    \/ \E t \in TaskSlots, v \in StoredIds : store_mm_ids(t, v, v)
    \/ \E t \in TaskSlots, p \in Pids, n \in TaskSlots : dup_sched_info(t, p, n)
    \/ \E t \in TaskSlots, e \in Entries, f \in EntryFuncs, tls \in TlsBases :
          reset(t, e, f, tls)
    \/ \E t \in TaskSlots : start(t)
    \/ \E n \in TaskSlots : switch_to(n)

SpecSwitch == InitSwitch /\ [][NextSwitch]_vars

\* Kernel stacks allocated with any size and dropped.
InitStack ==
    /\ strong = [b \in Blocks |-> 1]
    /\ ext = [b \in Blocks |-> 1]
    /\ slot = [c \in CPUs |-> NULL]
    /\ wrappers = [c \in CPUs |-> [b \in Blocks |-> 0]]
    /\ ub = FALSE
    /\ panicked = FALSE
    /\ last = [op |-> "boot", size |-> 0, stack |-> None]
    /\ HwReset
    /\ NoScenario
    /\ NoTasks
    /\ running = NULL
    /\ NoSyscall

NextStack ==
    \/ \E size \in StackSizes : kstack_alloc(size)
    \/ \E ks \in heap : kstack_drop(ks)

SpecStack == InitStack /\ [][NextStack]_vars

\* The operations that can abort the kernel, with those that feed them: the
\* current task read before and after boot published one, blocks created with
\* and without a stack, stacks allocated until the allocator has nothing left.
InitAbort ==
    /\ strong = [b \in Blocks |-> 1]
    /\ ext = [b \in Blocks |-> 1]
    /\ slot = [c \in CPUs |-> NULL]
    /\ wrappers = [c \in CPUs |-> [b \in Blocks |-> 0]]
    /\ ub = FALSE
    /\ panicked = FALSE
    /\ last = Op("boot", NULL, NULL, NULL, NULL)
    /\ HwReset
    /\ NoScenario
    /\ NoTasks
    /\ running = NULL
    /\ NoSyscall

NextAbort ==
    \/ \E c \in CPUs, b \in Blocks : init_current(c, b)
    \/ \E c \in CPUs : try_current_ctx(c)
    \/ \E c \in CPUs : current_ctx(c)
    \/ \E t \in TaskSlots, p \in Pids : new(t, p)
    \/ \E t \in TaskSlots, p \in Pids, n \in TaskSlots : dup_sched_info(t, p, n)
    \/ \E t \in TaskSlots : pt_regs(t)
    \/ \E size \in StackSizes : kstack_alloc(size)
    \/ \E ks \in heap : kstack_drop(ks)

SpecAbort == InitAbort /\ [][NextAbort]_vars

\* The task-context module's own operations on task control blocks, and
\* nothing from outside it: blocks are created, duplicated, reset and destroyed.
\* Some operation runs whenever one can.
InitOps ==
    /\ strong = [b \in Blocks |-> 1]
    /\ ext = [b \in Blocks |-> 1]
    /\ slot = [c \in CPUs |-> NULL]
    /\ wrappers = [c \in CPUs |-> [b \in Blocks |-> 0]]
    /\ ub = FALSE
    /\ panicked = FALSE
    /\ last = TaskOp("boot", NULL, NULL)
    /\ HwReset
    /\ NoScenario
    /\ NoTasks
    /\ running = NULL
    /\ NoSyscall

NextOps ==
    \/ \E t \in TaskSlots, p \in Pids : new(t, p)
    \/ \E t \in TaskSlots, p \in Pids, n \in TaskSlots : dup_sched_info(t, p, n)
    \/ \E t \in TaskSlots, e \in Entries, f \in EntryFuncs, tls \in TlsBases :
          reset(t, e, f, tls)
    \/ \E t \in TaskSlots : drop_sched_info(t)

SpecOps == InitOps /\ [][NextOps]_vars /\ WF_vars(NextOps)

\* One task's system calls, one after the other.
InitSyscall ==
    /\ strong = [b \in Blocks |-> 1]
    /\ ext = [b \in Blocks |-> 1]
    /\ slot = [c \in CPUs |-> NULL]
    /\ wrappers = [c \in CPUs |-> [b \in Blocks |-> 0]]
    /\ ub = FALSE
    /\ panicked = FALSE
    /\ last = [op |-> "boot", eid |-> 0]
    /\ HwReset
    /\ NoScenario
    /\ NoTasks
    /\ running = NULL
    /\ NoSyscall

NextSyscall ==
    \/ \E eid \in HandledNumbers \cup UnknownNumbers, a0 \in A0Values,
          a1 \in A1Values, a2 \in A2Values, utf8 \in BOOLEAN, ok \in BOOLEAN :
          handle_syscall(eid, a0, a1, a2, utf8, ok)
    \/ enable_sum
    \/ disable_sum
    \/ user_access
    \/ \E ret \in {-1} \cup ReadRets(sc.pos) : file_read(ret)
    \/ external_call
    \/ abort
    \/ task_exit
    \/ syscall_return

SpecSyscall == InitSyscall /\ [][NextSyscall]_vars

\* ------------------------------------------------------ registry: claims
\* The count of block b is exactly what its holders account for.
Accounted(b) == strong[b] = ext[b] + SlotRefs(slot, b)

\* References to b that the registry itself holds (not the outside holders').
RegistryHeld(s, e, b) == s[b] - e[b]

\* C1: after set_current(prev, next), where prev views the slot's block, the
\* slot (and so current_ctx/try_current_ctx) refers to next's block, and
\* prev's block is deallocated exactly when no other strong reference to it
\* is left: not while a run-queue entry or another slot holds it, and, as
\* outside holders drop theirs, only with the last one.
C1_SetCurrentKeepsPrevAlive ==
    [][ /\ \A c \in CPUs, p \in Blocks, n \in Blocks :
              (set_current(c, p, n) /\ slot[c] = p /\ Accounted(p) /\ Accounted(n))
              => /\ slot'[c] = n
                 /\ current_task_ptr(slot', c) = n
                 /\ ~ub'
                 /\ Deallocated(strong', p) <=> (ext'[p] + SlotRefs(slot', p) = 0)
        /\ \A b \in Blocks :
              (DropRef(b) /\ Accounted(b))
              => (Deallocated(strong', b) <=> (ext'[b] + SlotRefs(slot', b) = 0))
      ]_vars

\* A set_current has just replaced the current task prev by another task, and
\* prev is alive on the strength of its run-queue reference alone.
C1_Witness ==
    /\ last.op = "set_current"
    /\ last.was = last.prev
    /\ last.prev # last.next
    /\ ~ub
    /\ slot[last.cpu] = last.next
    /\ SlotRefs(slot, last.prev) = 0
    /\ ext[last.prev] >= 1
    /\ strong[last.prev] = ext[last.prev]

\* C2: for every sequence of reads, wrapper drops and set_current exchanges,
\* each block's strong count equals the references held outside the registry
\* plus the slots pointing at it, no slot points at a deallocated block and no
\* block is released after its deallocation.
C2_OneReferencePerBinding ==
    /\ ~ub
    /\ \A b \in Blocks : Accounted(b)
    /\ \A c \in CPUs : slot[c] # NULL => ~Deallocated(strong, slot[c])

\* C3: one call set_current(prev, next), prev viewing the slot's block, releases
\* exactly one reference to prev's block and creates exactly one, held by the
\* registry and published in the slot, to next's block (the caller's argument
\* is consumed); no other block's count changes.
C3_SetCurrentExchangesOneReference ==
    [][ \A c \in CPUs, p \in Blocks, n \in Blocks :
           (set_current(c, p, n) /\ slot[c] = p /\ ~ub')
           => /\ slot'[c] = n
              /\ ext' = [ext EXCEPT ![n] = @ - 1]
              /\ p # n => /\ strong'[p] = strong[p] - 1
                          /\ RegistryHeld(strong', ext', n) = RegistryHeld(strong, ext, n) + 1
              /\ p = n => RegistryHeld(strong', ext', n) = RegistryHeld(strong, ext, n)
              /\ \A b \in Blocks \ {p, n} : strong'[b] = strong[b]
      ]_vars

\* A set_current from the slot's block to another block has just run.
C3_Witness ==
    /\ last.op = "set_current"
    /\ last.was = last.prev
    /\ last.prev # last.next
    /\ ~ub
    /\ slot[last.cpu] = last.next
    /\ strong[last.next] >= 1

\* C4: reading the current task is non-owning: try_get returns nothing
\* exactly when the slot is null and otherwise a view of the slot's block;
\* neither obtaining a wrapper nor dropping one changes a strong count, a
\* slot or the outside references, so neither deallocates anything.
C4_ReadsAreNonOwning ==
    [][ /\ \A c \in CPUs :
              try_get(c)
              => /\ (last'.next = NULL) <=> (slot[c] = NULL)
                 /\ last'.next = slot[c]
                 /\ slot[c] # NULL =>
                        wrappers'[c][slot[c]] = wrappers[c][slot[c]] + 1
                 /\ slot[c] = NULL => wrappers' = wrappers
                 /\ strong' = strong /\ slot' = slot /\ ext' = ext
                 /\ ~ub' /\ ~panicked'
        /\ \A c \in CPUs :
              (get(c) /\ slot[c] # NULL)
              => /\ wrappers'[c][slot[c]] = wrappers[c][slot[c]] + 1
                 /\ strong' = strong /\ slot' = slot /\ ext' = ext
        /\ \A c \in CPUs, b \in Blocks :
              drop_wrapper(c, b)
              => strong' = strong /\ slot' = slot /\ ext' = ext /\ ~ub'
      ]_vars

\* A wrapper over the only reference to a block has just been dropped, a second
\* one is still held, and the block is still allocated.
C4_Witness ==
    /\ last.op = "drop_wrapper"
    /\ slot[last.cpu] = last.prev
    /\ wrappers[last.cpu][last.prev] >= 1
    /\ strong[last.prev] = 1
    /\ ext[last.prev] = 0

\* C5: at most one CurrentCtx wrapper is live per CPU in every reachable state.
C5_AtMostOneWrapperPerCpu == \A c \in CPUs : HeldOn(c) <= 1

\* ------------------------------------------------ address space: claims
\* C6: switch_mm(a, a, handle) writes no page-table root and flushes nothing,
\* for every identity a and every handle: satp and the TLB are as before.
C6_SameIdentityTouchesNothing ==
    [][ \A a \in MmIds, h \in Handles :
           switch_mm(a, a, h)
           => satp' = satp /\ tlb' = tlb /\ flushes' = flushes
      ]_vars

\* switch_mm took the fast path with a handle whose root is not the loaded one,
\* and the translations cached before the call are still in the TLB.
C6_Witness ==
    /\ last.op = "switch_mm"
    /\ last.prev = last.next
    /\ root_paddr(last.pgd) # read_page_table_root(satp)
    /\ tlb # {}

\* C7: switch_mm(a, b, handle) with a # b leaves read_page_table_root() equal
\* to the handle's root, whatever root was loaded before.
C7_DifferentIdentityLoadsRoot ==
    [][ \A a \in MmIds, b \in MmIds, h \in Handles :
           (a # b /\ switch_mm(a, b, h))
           => read_page_table_root(satp') = root_paddr(h)
      ]_vars

\* switch_mm with different identities has just replaced another root.
C7_Witness ==
    /\ last.op = "switch_mm"
    /\ last.prev # last.next
    /\ last.was # root_paddr(last.pgd)
    /\ read_page_table_root(satp) = root_paddr(last.pgd)

C9_WriteRootIdempotent ==
    [][ \A h \in Handles :
           write_page_table_root(h)
           => LET r == root_paddr(h)
                  old == read_page_table_root(satp)
              IN  /\ old # r => /\ satp' = satp_set(Sv39, 0, RootToPpn(r))
                                /\ tlb' = {}
                                /\ flushes' = flushes + 1
                  /\ old = r => /\ satp' = satp
                                /\ tlb' = tlb
                                /\ flushes' = flushes
                  /\ read_page_table_root(satp') = r
                  /\ WriteRoot(Hw', r) = Hw'
      ]_vars

\* write_page_table_root was called with the root already loaded, and the TLB
\* still holds the translations cached before the call.
C9_Witness ==
    /\ last.op = "write_page_table_root"
    /\ last.was = root_paddr(last.pgd)
    /\ read_page_table_root(satp) = root_paddr(last.pgd)
    /\ tlb # {}
    /\ flushes >= 1

\* ------------------------------------------------ task control block: claims
\* C10: dup_sched_info(pid) on a block bound to handle H yields a child whose
\* try_pgd() is the same H, with H's reference count raised by one and no
\* other handle touched, and whose kernel stack is a newly allocated region
\* apart from every live one, its top() different from the parent's; the
\* parent's fields are unchanged.
C10_DupSharesHandleFreshStack ==
    [][ \A t \in TaskSlots, n \in TaskSlots, p \in Pids :
           (dup_sched_info(t, p, n) /\ ~panicked')
           => LET parent == tcb[t]
                  child == tcb'[n]
              IN  /\ try_pgd_of(child) = try_pgd_of(parent)
                  /\ parent.pgd # NULL =>
                         pgd_strong'[parent.pgd] = pgd_strong[parent.pgd] + 1
                  /\ \A h \in Handles \ {parent.pgd} : pgd_strong'[h] = pgd_strong[h]
                  /\ child.kstack # None
                  /\ child.kstack \notin heap
                  /\ child.kstack \in heap'
                  /\ \A a \in heap :
                         ~Overlaps(child.kstack.ptr, child.kstack.layout.size, a)
                  /\ parent.kstack # None => top(child.kstack) # top(parent.kstack)
                  /\ tcb'[t] = parent
      ]_vars

\* A block bound to a handle and owning a stack has just been duplicated.
C10_Witness ==
    /\ last.op = "dup_sched_info"
    /\ ~panicked
    /\ tcb[last.self].pgd \in UserHandles
    /\ try_pgd_of(tcb[last.new]) = tcb[last.self].pgd
    /\ pgd_strong[tcb[last.self].pgd] = 3
    /\ tcb[last.self].kstack # None
    /\ top(tcb[last.new].kstack) # top(tcb[last.self].kstack)

\* C11: a child just made by dup_sched_info has mm_id = 0 and active_mm_id = 0
\* whatever the parent's two counters are, and the parent's counters are as
\* they were before the call.
C11_DupZeroesChildIds ==
    [][ \A t \in TaskSlots, n \in TaskSlots, p \in Pids :
           (dup_sched_info(t, p, n) /\ ~panicked')
           => /\ tcb'[n].mm_id = 0
              /\ tcb'[n].active_mm_id = 0
              /\ tcb'[t].mm_id = tcb[t].mm_id
              /\ tcb'[t].active_mm_id = tcb[t].active_mm_id
      ]_vars

\* A parent whose two counters are both nonzero has just been duplicated.
C11_Witness ==
    /\ last.op = "dup_sched_info"
    /\ ~panicked
    /\ tcb[last.self].mm_id = 1
    /\ tcb[last.self].active_mm_id = 1
    /\ tcb[last.new].mm_id = 0
    /\ tcb[last.new].active_mm_id = 0

\* C12: a block made by new(pid) or dup_sched_info(pid) has pid() = tgid() =
\* pid, and no later step (reset, a dup of the block, a store to its identity
\* counters, a binding, a switch away from or to it) changes either value.
C12_TgidIsPid ==
    [][ /\ \A t \in TaskSlots, p \in Pids :
              new(t, p) => pid(tcb'[t]) = p /\ tgid(tcb'[t]) = p
        /\ \A t \in TaskSlots, n \in TaskSlots, p \in Pids :
              (dup_sched_info(t, p, n) /\ ~panicked')
              => pid(tcb'[n]) = p /\ tgid(tcb'[n]) = p
        /\ \A t \in TaskSlots :
              (tcb[t] # None /\ tcb'[t] # None)
              => /\ pid(tcb'[t]) = pid(tcb[t])
                 /\ tgid(tcb'[t]) = tgid(tcb[t])
                 /\ tgid(tcb'[t]) = pid(tcb'[t])
      ]_vars

\* A block with pid 2 that was reset has just been switched to, away from a
\* block with pid 1.
C12_Witness ==
    /\ last.op = "switch_to"
    /\ running # NULL
    /\ tcb[running].thread.ra \in EntryFuncs
    /\ pid(tcb[running]) = 2
    /\ tgid(tcb[running]) = 2
    /\ \E t \in TaskSlots \ {running} : tcb[t] # None /\ pid(tcb[t]) = 1 /\ tgid(tcb[t]) = 1

\* C13: every allocated kernel stack has top() = base + size, and top() is a
\* multiple of 16, whatever size it was allocated with.
C13_TopAligned16 ==
    \A ks \in heap :
        /\ top(ks) = ks.ptr + ks.layout.size
        /\ top(ks) % 16 = 0

\* The blocks whose kstack field is the stack ks.
Owners(tc, ks) == {t \in TaskSlots : IF tc[t] = None THEN FALSE ELSE tc[t].kstack = ks}

\* C14: every live kernel stack is owned by exactly one block, and a stack is
\* released only by the destruction of the block that owns it, over every
\* sequence of new, dup_sched_info, reset and drop.
C14_StackReleasedAtDestruction ==
    [][ /\ \A ks \in heap' : Cardinality(Owners(tcb', ks)) = 1
        /\ \A ks \in heap \ heap' :
              \E t \in Owners(tcb, ks) : drop_sched_info(t)
      ]_vars

\* Every live kernel stack is owned by exactly one block: none is shared and
\* none is leaked.
StackExclusivelyOwned == \A ks \in heap : Cardinality(Owners(tcb, ks)) = 1

\* C15: after reset(entry, entry_fn, tls) the block has a live kernel stack,
\* holds the entry closure, and its saved context has ra = entry_fn, tp = tls
\* and sp = the value pt_regs() gives for the block after the reset, which is
\* the top of its current stack minus align_down(TRAPFRAME_SIZE, STACK_ALIGN).
C15_ResetInitializesContext ==
    [][ \A t \in TaskSlots, e \in Entries, f \in EntryFuncs, tls \in TlsBases :
           (reset(t, e, f, tls) /\ ~panicked')
           => LET info == tcb'[t]
              IN  /\ info.kstack # None
                  /\ info.kstack \in heap'
                  /\ info.entry = e
                  /\ info.thread.ra = f
                  /\ info.thread.tp = tls
                  /\ info.thread.sp = pt_regs_of(info)
                  /\ info.thread.sp =
                         top(info.kstack) - align_down(TRAPFRAME_SIZE, STACK_ALIGN)
                  /\ info.thread.sp % STACK_ALIGN = 0
      ]_vars

\* A block that already had a stack has just been reset onto another one.
C15_Witness ==
    /\ last.op = "reset"
    /\ ~panicked
    /\ tcb[last.self].kstack # None
    /\ tcb[last.self].kstack.ptr # 1048592
    /\ heap = {tcb[last.self].kstack}
    /\ tcb[last.self].thread.ra \in EntryFuncs
    /\ tcb[last.self].thread.sp = top(tcb[last.self].kstack) - 256
    /\ \A t \in TaskSlots \ {last.self} : tcb[t] = None

C17_ReturnAdvancesSepcOnce ==
    [][ /\ syscall_return
           => LET eid == tf.a7
              IN  /\ tf'.sepc = sc.sepc0 + 4
                  /\ tf'.sepc = tf.sepc + 4
                  /\ tf' = [tf EXCEPT !.a0 = tf'.a0, !.sepc = tf'.sepc]
                  /\ eid \notin {LINUX_SYSCALL_MUNMAP, LINUX_SYSCALL_EXIT}
                  /\ eid \in UnknownNumbers \cup
                         {LINUX_SYSCALL_CLOSE, LINUX_SYSCALL_FSTATAT,
                          LINUX_SYSCALL_UNAME, LINUX_SYSCALL_EXIT_GROUP}
                     => tf'.a0 = 0
                  /\ eid \in {LINUX_SYSCALL_WRITE, LINUX_SYSCALL_WRITEV}
                     => tf'.a0 = tf.a2
                  /\ eid = LINUX_SYSCALL_READLINKAT => tf'.a0 = -1
                  /\ eid = LINUX_SYSCALL_READ => tf'.a0 = sc.pos
                  /\ eid = LINUX_SYSCALL_OPENAT => tf'.a0 = (IF sc.ok THEN 3 ELSE -2)
                  /\ eid = LINUX_SYSCALL_BRK
                     => tf'.a0 \in {CurBrk, align_up_4k(tf.a0)}
                  /\ eid = LINUX_SYSCALL_MMAP => is_aligned_4k(tf'.a0)
        /\ (sc.pc = "handler" /\ sc'.pc # "user") => tf' = tf
      ]_vars

\* The task's second system call, one with an unknown number, has returned.
C17_Witness ==
    /\ last.op = "syscall_return"
    /\ last.eid \in UnknownNumbers
    /\ sc.n = 2
    /\ \E pc0 \in UserPcs : tf.sepc = pc0 + 8
    /\ tf.a0 = 0
    /\ tf.a2 = 3

\* ------------------------------------------------------ error handling: claims
\* C18: a violated invariant ends in the abort state and hands the caller
\* nothing: get()/current_ctx() on a null slot aborts and makes no wrapper,
\* pt_regs() on a block without a kernel stack aborts, TaskStack::alloc (called
\* on its own or by dup_sched_info) aborts when the allocator has nothing and
\* makes no stack and no block, and nothing runs after an abort; while
\* try_get()/try_current_ctx() on a null slot does not abort and changes
\* nothing.
C18_ViolationsAbort ==
    [][ /\ ~panicked
        /\ (last'.op = "get" /\ slot[last'.cpu] = NULL)
              => (panicked' /\ UNCHANGED <<regVars, ub, hwVars, scnVars, taskVars>>)
        /\ (last'.op = "pt_regs" /\ tcb[last'.self].kstack = None)
              => (panicked' /\ UNCHANGED <<regVars, ub, taskVars>>)
        /\ (last'.op = "TaskStack_alloc" /\ FreeBases(heap, last'.size) = {})
              => (panicked' /\ last'.stack = None /\ UNCHANGED <<regVars, ub, taskVars>>)
        /\ (last'.op = "dup_sched_info" /\ FreeBases(heap, align_up_4k(THREAD_SIZE)) = {})
              => (panicked' /\ UNCHANGED <<regVars, ub, taskVars>>)
        /\ (last'.op = "try_get" /\ slot[last'.cpu] = NULL)
              => (~panicked' /\ UNCHANGED <<regVars, ub, hwVars, scnVars, taskVars,
                                            running, sysVars>>)
      ]_vars

\* get() ran on a CPU whose slot was still null, after a block was created,
\* and the kernel is in the abort state.
C18_Witness ==
    /\ last.op = "get"
    /\ slot[last.cpu] = NULL
    /\ panicked
    /\ \E t \in TaskSlots : tcb[t] # None

\* The other cases of C18 happen: pt_regs() aborted on a block without a stack.
C18_PtRegsAborted ==
    /\ last.op = "pt_regs"
    /\ tcb[last.self].kstack = None
    /\ panicked

\* The allocator had nothing left and TaskStack::alloc aborted.
C18_AllocAborted ==
    /\ last.op = "TaskStack_alloc"
    /\ last.stack = None
    /\ panicked

\* try_get() returned nothing on a null slot and the kernel runs on.
C18_TryGetReturnedNothing ==
    /\ last.op = "try_get"
    /\ last.next = NULL
    /\ ~panicked

\* ------------------------------------------------------ lazy switch: claims
\* C19: lazy-switch soundness: whenever a switch between tasks made by new and
\* dup_sched_info returns (the first one from boot, each later one from the
\* task the previous switch made current), the hardware page-table root is
\* the root of the next task's address-space handle.
C19_LazySwitchSound ==
    [][ last'.op \in {"start", "switch_to"}
          => read_page_table_root(satp') = root_paddr(last'.pgd) ]_vars

\* The identities name the handles: two blocks bound to address spaces carry
\* the same mm_id exactly when they are bound to the same handle.
IdsNameHandles ==
    \A t \in TaskSlots, u \in TaskSlots :
        IF tcb[t] = None \/ tcb[u] = None
        THEN TRUE
        ELSE (tcb[t].pgd # NULL /\ tcb[u].pgd # NULL)
                => ((tcb[t].mm_id = tcb[u].mm_id) <=> (tcb[t].pgd = tcb[u].pgd))

\* What the code does guarantee: a switch made while the identities name the
\* handles and the loaded root is the running task's ends with the next
\* task's root loaded.
C19_SoundWhenIdsNameHandles ==
    [][ ( /\ last'.op = "switch_to"
          /\ IdsNameHandles
          /\ read_page_table_root(satp) = root_paddr(tcb[running].pgd) )
          => read_page_table_root(satp') = root_paddr(last'.pgd) ]_vars

\* The fast path was taken between two blocks that still carry the identity
\* new gave them and are bound to different address spaces: the root loaded
\* is not the next task's.
C19_StaleRoot ==
    /\ last.op = "switch_to"
    /\ last.prev = 0
    /\ last.next = 0
    /\ read_page_table_root(satp) # root_paddr(last.pgd)
    /\ read_page_table_root(satp) = last.was

\* ------------------------------------------------------ binding: claims
\* Some block is bound: try_pgd() on it returns a handle.
SomeBlockBound ==
    \E t \in TaskSlots :
        IF tcb[t] = None THEN FALSE ELSE try_pgd_of(tcb[t]) # NULL

\* C20: a task control block becomes bound to an address space through the
\* module's own operations: a run of new, dup_sched_info and reset reaches a
\* state in which try_pgd() returns a handle.
C20_BindingReachable == <>SomeBlockBound

\* What the code does instead: every block that new, dup_sched_info and reset
\* produce is unbound, and no handle ever gains a reference.
C20_PgdAlwaysUnbound ==
    /\ ~SomeBlockBound
    /\ pgd_strong = [h \in Handles |-> 1]

\* All three operations have acted: a duplicated child was reset, and
\* try_pgd() on it and on its parent returns nothing.
C20_ChildResetUnbound ==
    /\ last.op = "reset"
    /\ \A t \in TaskSlots : IF tcb[t] = None THEN FALSE
                               ELSE tcb[t].kstack # None /\ try_pgd_of(tcb[t]) = NULL

\* ------------------------------------------------------ read: claims
\* linux_syscall_read is being handled, or has just returned.
InRead == sc.pc = "handler" /\ tf.a7 = LINUX_SYSCALL_READ

ReadReturned == last.op = "syscall_return" /\ last.eid = LINUX_SYSCALL_READ

\* The slice indices of linux_syscall_read stay within the kernel buffer:
\* buf[pos..] is taken with pos < count < 1024 and buf[..count] with
\* count < 1024.
C21_IndicesInBuffer ==
    InRead =>
        /\ sc.pos >= 0
        /\ sc.pos <= READ_BUF_SIZE
        /\ (sc.todo # <<>> /\ Head(sc.todo) = "read_loop" /\ sc.pos < tf.a2)
              => sc.pos < READ_BUF_SIZE
        /\ (sc.todo # <<>> /\ Head(sc.todo) # "panic") => tf.a2 < READ_BUF_SIZE

\* C21: linux_syscall_read with count < 1024 returns pos with
\* 0 <= pos <= count, whatever the file returns on each read; the loop never
\* counts more than count bytes as read, and its slice indices stay within
\* the 1024-byte kernel buffer.
C21_ReadReturnsAtMostCount ==
    /\ C21_IndicesInBuffer
    /\ InRead => sc.pos <= tf.a2
    /\ ReadReturned => (0 <= tf.a0 /\ tf.a0 <= tf.a2)

\* read returned more bytes than were asked for.
C21_ReturnedMoreThanCount ==
    /\ ReadReturned
    /\ tf.a2 < READ_BUF_SIZE
    /\ tf.a0 > tf.a2

====
